---- MODULE Spec2Model ----
(***************************************************************************)
(* Model of the Gmail receipt scanner: the document classifier             *)
(* (src/src/document_processor.py), the scan of a mailbox                  *)
(* (src/src/main.py) with the documents database (src/src/database.py),    *)
(* and the background scan of the web application (src/src/web_app.py).    *)
(*                                                                         *)
(* Text is a sequence of characters.  An ASCII character is the one-       *)
(* character string itself; a non-ASCII character is written by its        *)
(* code point ("U+0438" is the Cyrillic small letter i), since module      *)
(* files are ASCII.  Bytes that are not valid UTF-8 are the character      *)
(* BadByte.                                                                *)
(***************************************************************************)
EXTENDS Integers, Sequences, FiniteSets, TLC

\* one call of the classifier: the call, what detect did in it, what it
\* returned, the number of calls of detect, and what the same call returned
\* when it was made a second time
VARIABLES call, detected, result, detectCalls, repeated

\* ReceiptScanner.scan_gmail: where the scan stands, its local variables, the
\* two tables of the database, and what the database and Gmail did for the
\* scan (the keys of the rows written, the number of messages whose details
\* Gmail gave)
VARIABLES pc, messages, message_index, message_data, attachment_index,
          documents_found, processed_messages, financial_documents, scan_history,
          db_written, gmail_served

\* the web application: the global scanning_status, the run_scan threads
\* started so far, and the answers given to POST /start_scan
VARIABLES scanning_status, threads, responses

classifierVars == <<call, detected, result, detectCalls, repeated>>

scanVars ==
    <<pc, messages, message_index, message_data, attachment_index, documents_found,
      processed_messages, financial_documents, scan_history, db_written, gmail_served>>

webVars == <<scanning_status, threads, responses>>

vars == <<classifierVars, scanVars, webVars>>

(***************************************************************************)
(* The lexicon and the pattern tables of DocumentProcessor.__init__.       *)
(***************************************************************************)

\* ru: kvitantsiya, chek, schet, oplata, platezh, summa, itogo, k doplate, bank, karta, nalichnye, uslugi, tovary, pokupka, rub, rubl
Keywords_ru ==
    << <<"U+043A", "U+0432", "U+0438", "U+0442", "U+0430", "U+043D", "U+0446", "U+0438", "U+044F">>,
      <<"U+0447", "U+0435", "U+043A">>,
      <<"U+0441", "U+0447", "U+0435", "U+0442">>,
      <<"U+043E", "U+043F", "U+043B", "U+0430", "U+0442", "U+0430">>,
      <<"U+043F", "U+043B", "U+0430", "U+0442", "U+0435", "U+0436">>,
      <<"U+0441", "U+0443", "U+043C", "U+043C", "U+0430">>,
      <<"U+0438", "U+0442", "U+043E", "U+0433", "U+043E">>,
      <<"U+043A", " ", "U+0434", "U+043E", "U+043F", "U+043B", "U+0430", "U+0442", "U+0435">>,
      <<"U+0431", "U+0430", "U+043D", "U+043A">>,
      <<"U+043A", "U+0430", "U+0440", "U+0442", "U+0430">>,
      <<"U+043D", "U+0430", "U+043B", "U+0438", "U+0447", "U+043D", "U+044B", "U+0435">>,
      <<"U+0443", "U+0441", "U+043B", "U+0443", "U+0433", "U+0438">>,
      <<"U+0442", "U+043E", "U+0432", "U+0430", "U+0440", "U+044B">>,
      <<"U+043F", "U+043E", "U+043A", "U+0443", "U+043F", "U+043A", "U+0430">>,
      <<"U+0440", "U+0443", "U+0431">>,
      <<"U+0440", "U+0443", "U+0431", "U+043B">> >>

\* en: receipt, invoice, bill, payment, total, amount, purchase, transaction, card, cash, bank, due, subtotal, tax, service, goods
Keywords_en ==
    << <<"r", "e", "c", "e", "i", "p", "t">>,
      <<"i", "n", "v", "o", "i", "c", "e">>,
      <<"b", "i", "l", "l">>,
      <<"p", "a", "y", "m", "e", "n", "t">>,
      <<"t", "o", "t", "a", "l">>,
      <<"a", "m", "o", "u", "n", "t">>,
      <<"p", "u", "r", "c", "h", "a", "s", "e">>,
      <<"t", "r", "a", "n", "s", "a", "c", "t", "i", "o", "n">>,
      <<"c", "a", "r", "d">>,
      <<"c", "a", "s", "h">>,
      <<"b", "a", "n", "k">>,
      <<"d", "u", "e">>,
      <<"s", "u", "b", "t", "o", "t", "a", "l">>,
      <<"t", "a", "x">>,
      <<"s", "e", "r", "v", "i", "c", "e">>,
      <<"g", "o", "o", "d", "s">> >>

\* de: rechnung, quittung, zahlung, summe, gesamt, betrag, kauf, bank, karte, bar
Keywords_de ==
    << <<"r", "e", "c", "h", "n", "u", "n", "g">>,
      <<"q", "u", "i", "t", "t", "u", "n", "g">>,
      <<"z", "a", "h", "l", "u", "n", "g">>,
      <<"s", "u", "m", "m", "e">>,
      <<"g", "e", "s", "a", "m", "t">>,
      <<"b", "e", "t", "r", "a", "g">>,
      <<"k", "a", "u", "f">>,
      <<"b", "a", "n", "k">>,
      <<"k", "a", "r", "t", "e">>,
      <<"b", "a", "r">> >>

\* fr: facture, recu (with cedilla), paiement, total, montant, achat, banque, carte, especes (with grave)
Keywords_fr ==
    << <<"f", "a", "c", "t", "u", "r", "e">>,
      <<"r", "e", "U+00E7", "u">>,
      <<"p", "a", "i", "e", "m", "e", "n", "t">>,
      <<"t", "o", "t", "a", "l">>,
      <<"m", "o", "n", "t", "a", "n", "t">>,
      <<"a", "c", "h", "a", "t">>,
      <<"b", "a", "n", "q", "u", "e">>,
      <<"c", "a", "r", "t", "e">>,
      <<"e", "s", "p", "U+00E8", "c", "e", "s">> >>

financial_keywords ==
    [ru |-> Keywords_ru, en |-> Keywords_en, de |-> Keywords_de, fr |-> Keywords_fr]

LexiconLanguages == {"ru", "en", "de", "fr"}

\* the currency suffixes of amount pattern 1: rub (Cyrillic), the ruble sign, rub
RubleSuffix ==
    << <<"U+0440", "U+0443", "U+0431">>,
      <<"U+20BD">>,
      <<"r", "u", "b">> >>

\* the currency codes of amount pattern 5 (matched ignoring case)
CurrencyCodes ==
    << <<"u", "s", "d">>,
      <<"e", "u", "r">>,
      <<"g", "b", "p">> >>

\* the leading words of amount pattern 6: itogo (Cyrillic), total, sum, amount
AmountWords ==
    << <<"U+0438", "U+0442", "U+043E", "U+0433", "U+043E">>,
      <<"t", "o", "t", "a", "l">>,
      <<"s", "u", "m">>,
      <<"a", "m", "o", "u", "n", "t">> >>

\* the URL tokens of the three link patterns (English; Russian; French and German)
LinkTokens1 ==
    << <<"r", "e", "c", "e", "i", "p", "t">>,
      <<"i", "n", "v", "o", "i", "c", "e">>,
      <<"b", "i", "l", "l">>,
      <<"p", "a", "y", "m", "e", "n", "t">>,
      <<"t", "r", "a", "n", "s", "a", "c", "t", "i", "o", "n">> >>

LinkTokens2 ==
    << <<"U+043A", "U+0432", "U+0438", "U+0442", "U+0430", "U+043D", "U+0446">>,
      <<"U+0441", "U+0447", "U+0435", "U+0442">>,
      <<"U+043F", "U+043B", "U+0430", "U+0442", "U+0435", "U+0436">>,
      <<"U+043E", "U+043F", "U+043B", "U+0430", "U+0442">> >>

LinkTokens3 ==
    << <<"f", "a", "c", "t", "u", "r", "e">>,
      <<"r", "e", "c", "h", "n", "u", "n", "g">>,
      <<"p", "a", "i", "e", "m", "e", "n", "t">>,
      <<"z", "a", "h", "l", "u", "n", "g">> >>

financial_patterns == << LinkTokens1, LinkTokens2, LinkTokens3 >>

\* the alternatives of the two bonus searches
InvoiceTokens ==
    << <<"i", "n", "v", "o", "i", "c", "e">>,
      <<"U+0441", "U+0447", "U+0435", "U+0442">>,
      <<"f", "a", "c", "t", "u", "r", "e">>,
      <<"r", "e", "c", "h", "n", "u", "n", "g">> >>

ReceiptTokens ==
    << <<"r", "e", "c", "e", "i", "p", "t">>,
      <<"U+043A", "U+0432", "U+0438", "U+0442", "U+0430", "U+043D", "U+0446", "U+0438", "U+044F">>,
      <<"r", "e", "U+00E7", "u">>,
      <<"q", "u", "i", "t", "t", "u", "n", "g">> >>

(***************************************************************************)
(* Characters and the string operations the classifier uses.               *)
(***************************************************************************)
\* str.lower() on the letters that have an upper case: A-Z, the Cyrillic
\* capitals and the accented capitals of the French keywords
UpperToLower ==
    ("A" :> "a") @@ ("B" :> "b") @@ ("C" :> "c") @@ ("D" :> "d") @@
    ("E" :> "e") @@ ("F" :> "f") @@ ("G" :> "g") @@ ("H" :> "h") @@
    ("I" :> "i") @@ ("J" :> "j") @@ ("K" :> "k") @@ ("L" :> "l") @@
    ("M" :> "m") @@ ("N" :> "n") @@ ("O" :> "o") @@ ("P" :> "p") @@
    ("Q" :> "q") @@ ("R" :> "r") @@ ("S" :> "s") @@ ("T" :> "t") @@
    ("U" :> "u") @@ ("V" :> "v") @@ ("W" :> "w") @@ ("X" :> "x") @@
    ("Y" :> "y") @@ ("Z" :> "z") @@ ("U+0410" :> "U+0430") @@ ("U+0411" :> "U+0431") @@
    ("U+0412" :> "U+0432") @@ ("U+0413" :> "U+0433") @@ ("U+0414" :> "U+0434") @@ ("U+0415" :> "U+0435") @@
    ("U+0416" :> "U+0436") @@ ("U+0417" :> "U+0437") @@ ("U+0418" :> "U+0438") @@ ("U+0419" :> "U+0439") @@
    ("U+041A" :> "U+043A") @@ ("U+041B" :> "U+043B") @@ ("U+041C" :> "U+043C") @@ ("U+041D" :> "U+043D") @@
    ("U+041E" :> "U+043E") @@ ("U+041F" :> "U+043F") @@ ("U+0420" :> "U+0440") @@ ("U+0421" :> "U+0441") @@
    ("U+0422" :> "U+0442") @@ ("U+0423" :> "U+0443") @@ ("U+0424" :> "U+0444") @@ ("U+0425" :> "U+0445") @@
    ("U+0426" :> "U+0446") @@ ("U+0427" :> "U+0447") @@ ("U+0428" :> "U+0448") @@ ("U+0429" :> "U+0449") @@
    ("U+042A" :> "U+044A") @@ ("U+042B" :> "U+044B") @@ ("U+042C" :> "U+044C") @@ ("U+042D" :> "U+044D") @@
    ("U+042E" :> "U+044E") @@ ("U+042F" :> "U+044F") @@ ("U+0401" :> "U+0451") @@ ("U+00C7" :> "U+00E7") @@
    ("U+00C8" :> "U+00E8") @@ ("U+00C9" :> "U+00E9")

Lower(c) ==
    IF c \in DOMAIN UpperToLower THEN UpperToLower[c] ELSE c

\* str.lower()
LowerText(s) ==
    [i \in 1..Len(s) |-> Lower(s[i])]

\* \s of the re module
Whitespace == {" ", "\n", "\t", "\r"}

\* \d of the re module
Digits == {"0", "1", "2", "3", "4", "5", "6", "7", "8", "9"}

\* the characters [\s<>"] that end a URL in the link patterns
LinkStops == Whitespace \cup {"<", ">", "\""}

\* a byte sequence that is not valid UTF-8, as it stands in file_data
BadByte == "0xFF"

Min(a, b) == IF a <= b THEN a ELSE b

\* s[:n]
Take(s, n) == SubSeq(s, 1, Min(n, Len(s)))

\* whether k stands in s at position i
MatchAt(s, k, i) ==
    /\ i + Len(k) - 1 <= Len(s)
    /\ k # << >> => s[i] = k[1]
    /\ SubSeq(s, i, i + Len(k) - 1) = k

\* k in s
Contains(s, k) ==
    LET n == Len(k)
    IN  \E i \in 1..(Len(s) - n + 1) :
            (n > 0 => s[i] = k[1]) /\ SubSeq(s, i, i + n - 1) = k

RECURSIVE CountFrom(_, _, _)
\* the occurrences of k in s[i..]: the first one, then those after its end
CountFrom(s, k, i) ==
    LET n == Len(k)
        starts == {j \in i..(Len(s) - n + 1) : s[j] = k[1] /\ SubSeq(s, j, j + n - 1) = k}
    IN  IF starts = {} THEN 0
        ELSE 1 + CountFrom(s, k, (CHOOSE j \in starts : \A h \in starts : j <= h) + n)

\* s.count(k): the non-overlapping occurrences of k in s, left to right
Count(s, k) == CountFrom(s, k, 1)

\* the first position from i on whose character is in set, or Len(s) + 1
SkipUntil(s, set, i) ==
    IF \E j \in i..Len(s) : s[j] \in set
    THEN CHOOSE j \in i..Len(s) : s[j] \in set /\ \A h \in i..(j - 1) : s[h] \notin set
    ELSE Len(s) + 1

\* the position after the longest run of characters of set that starts at i
SkipWhile(s, set, i) ==
    IF \E j \in i..Len(s) : s[j] \notin set
    THEN CHOOSE j \in i..Len(s) : s[j] \notin set /\ \A h \in i..(j - 1) : s[h] \in set
    ELSE Len(s) + 1

\* the position before the longest run of characters of set that ends at i
SkipBack(s, set, i) ==
    IF \E j \in 1..i : s[j] \notin set
    THEN CHOOSE j \in 1..i : s[j] \notin set /\ \A h \in (j + 1)..i : s[h] \in set
    ELSE 0

\* s.strip(): s without its leading and trailing whitespace
Strip(s) ==
    SubSeq(s, SkipWhile(s, Whitespace, 1), SkipBack(s, Whitespace, Len(s)))

\* bytes.decode('utf-8', errors='ignore'): the invalid bytes are dropped
Decode(bytes) ==
    SelectSeq(bytes, LAMBDA b : b # BadByte)

\* re.search(r'(a|b|...)', s): whether one of the alternatives stands in s
SearchAny(s, alternatives) ==
    \E a \in 1..Len(alternatives) : Contains(s, alternatives[a])

(***************************************************************************)
(* The amount patterns.  Each XEnd(s, i) is the position after the match   *)
(* of X that starts at position i of s, or 0 when X does not match there.  *)
(* The patterns are matched with re.IGNORECASE: lower is the lower-cased   *)
(* text, s the text as it stands.                                          *)
(***************************************************************************)
\* \d+[.,]\d{2}
NumberEnd(s, i) ==
    LET j == SkipWhile(s, Digits, i)
    IN  IF /\ j > i
           /\ j + 2 <= Len(s)
           /\ s[j] \in {".", ","}
           /\ s[j + 1] \in Digits
           /\ s[j + 2] \in Digits
        THEN j + 3 ELSE 0

\* (?:a|b|...) at position i: the alternatives are tried in order
AlternativeEnd(lower, alternatives, i) ==
    LET hits == {a \in 1..Len(alternatives) : MatchAt(lower, alternatives[a], i)}
    IN  IF hits = {} THEN 0
        ELSE LET a == CHOOSE x \in hits : \A y \in hits : x <= y
             IN  i + Len(alternatives[a])

\* \d+[.,]\d{2}\s*(?:a|b|...)
NumberThenSuffixEnd(s, lower, suffixes, i) ==
    LET j == NumberEnd(s, i)
    IN  IF j = 0 THEN 0
        ELSE AlternativeEnd(lower, suffixes, SkipWhile(s, Whitespace, j))

\* c\s*\d+[.,]\d{2} for a currency sign c
SignThenNumberEnd(s, sign, i) ==
    IF i <= Len(s) /\ s[i] = sign
    THEN NumberEnd(s, SkipWhile(s, Whitespace, i + 1))
    ELSE 0

\* (?:a|b|...)[\s:]*\d+[.,]\d{2}
WordThenNumberEnd(s, lower, words, i) ==
    LET j == AlternativeEnd(lower, words, i)
    IN  IF j = 0 THEN 0
        ELSE NumberEnd(s, SkipWhile(s, Whitespace \cup {":"}, j))

\* the six patterns of self.amount_patterns, in their order
amount_patterns == 1..6

PatternEnd(p, s, lower, i) ==
    CASE p = 1 -> NumberThenSuffixEnd(s, lower, RubleSuffix, i)
      [] p = 2 -> SignThenNumberEnd(s, "$", i)
      [] p = 3 -> SignThenNumberEnd(s, "U+20AC", i)
      [] p = 4 -> SignThenNumberEnd(s, "U+00A3", i)
      [] p = 5 -> NumberThenSuffixEnd(s, lower, CurrencyCodes, i)
      [] p = 6 -> WordThenNumberEnd(s, lower, AmountWords, i)

\* the characters (of the lower-cased text) a match of pattern p starts with
PatternStarts(p) ==
    CASE p \in {1, 5} -> Digits
      [] p = 2 -> {"$"}
      [] p = 3 -> {"U+20AC"}
      [] p = 4 -> {"U+00A3"}
      [] p = 6 -> {AmountWords[w][1] : w \in 1..Len(AmountWords)}

RECURSIVE FindAllFrom(_, _, _, _)
\* the scan goes from a position where the pattern cannot start to the next
\* one where it can, and from the end of a match to the position after it
FindAllFrom(p, s, lower, i) ==
    LET j == SkipUntil(lower, PatternStarts(p), i)
        e == PatternEnd(p, s, lower, j)
    IN  IF j > Len(s) THEN << >>
        ELSE IF e = 0 THEN FindAllFrom(p, s, lower, j + 1)
        ELSE <<SubSeq(s, j, e - 1)>> \o FindAllFrom(p, s, lower, e)

\* re.findall(pattern, text, re.IGNORECASE): the matches, left to right,
\* none overlapping an earlier one
FindAll(p, s, lower) == FindAllFrom(p, s, lower, 1)

RECURSIVE AmountsFrom(_, _, _)
AmountsFrom(p, s, lower) ==
    IF p \notin amount_patterns THEN << >>
    ELSE FindAll(p, s, lower) \o AmountsFrom(p + 1, s, lower)

\* amounts_found before the truncation: pattern order outer, match order inner
AllAmounts(s) == AmountsFrom(1, s, LowerText(s))

(***************************************************************************)
(* _extract_financial_links                                                *)
(***************************************************************************)
\* https?://[^\s<>"]*(?:a|b|...)[^\s<>"]* at position i: the URL runs to the
\* next stop character and matches when one of the tokens stands in it
LinkEnd(s, lower, tokens, i) ==
    IF ~MatchAt(lower, <<"h", "t", "t", "p">>, i) THEN 0
    ELSE LET j == IF i + 4 <= Len(s) /\ lower[i + 4] = "s" THEN i + 5 ELSE i + 4
         IN  IF ~MatchAt(lower, <<":", "/", "/">>, j) THEN 0
             ELSE LET e == SkipUntil(s, LinkStops, j + 3)
                  IN  IF SearchAny(SubSeq(lower, j + 3, e - 1), tokens) THEN e ELSE 0

RECURSIVE FindLinksFrom(_, _, _, _)
\* the scan goes from a position that is no "h" to the next "h", and from
\* the end of a match to the position after it
FindLinksFrom(tokens, s, lower, i) ==
    LET j == SkipUntil(lower, {"h"}, i)
        e == LinkEnd(s, lower, tokens, j)
    IN  IF j > Len(s) THEN << >>
        ELSE IF e = 0 THEN FindLinksFrom(tokens, s, lower, j + 1)
        ELSE <<SubSeq(s, j, e - 1)>> \o FindLinksFrom(tokens, s, lower, e)

\* re.findall(pattern, text, re.IGNORECASE) for one link pattern
FindLinks(tokens, s, lower) == FindLinksFrom(tokens, s, lower, 1)

Range(f) == {f[i] : i \in DOMAIN f}

\* set(links): the distinct matches of the three patterns
LinkSet(text) ==
    LET lower == LowerText(text)
    IN  UNION {Range(FindLinks(financial_patterns[p], text, lower)) :
                  p \in 1..Len(financial_patterns)}

\* the orders list(set(links)) may come in: the iteration order of a set of
\* strings is fixed by the strings' hashes, which the program does not choose
ListsOfSet(S) ==
    {f \in [1..Cardinality(S) -> S] : Range(f) = S}

\* every list that _extract_financial_links(text) may return
extract_financial_links(text) == ListsOfSet(LinkSet(text))

(***************************************************************************)
(* _extract_text, _extract_from_pdf, _extract_from_image                   *)
(*                                                                         *)
(* file_data is the bytes of the attachment together with what the two     *)
(* external libraries make of them: file_data.bytes the bytes as           *)
(* characters (BadByte where they are no UTF-8), file_data.pdf what        *)
(* PyPDF2 does on them, file_data.ocr what Image.open and pytesseract do.  *)
(* A call's outcome is [raised, value]: raised when an exception leaves    *)
(* the function.                                                           *)
(***************************************************************************)
Returns(v) == [raised |-> FALSE, value |-> v]

Raises == [raised |-> TRUE, value |-> << >>]

RECURSIVE PagesText(_, _)
\* the loop over pdf_reader.pages: it ends at the first page whose
\* extract_text() fails, with the text of the pages before it
PagesText(pages, i) ==
    IF i > Len(pages) \/ ~pages[i].ok THEN << >>
    ELSE pages[i].text \o <<"\n">> \o PagesText(pages, i + 1)

extract_from_pdf(file_data) ==
    IF ~file_data.pdf.ok THEN << >>           \* PdfReader(...) raises
    ELSE PagesText(file_data.pdf.pages, 1)

extract_from_image(file_data) ==
    IF ~file_data.ocr.ok THEN << >>           \* Image.open or image_to_string raises
    ELSE file_data.ocr.text

\* mime_type.startswith(prefix); on None it raises AttributeError
StartsWith(mime_type, prefix) ==
    IF mime_type.none THEN Raises
    ELSE Returns(MatchAt(mime_type.chars, prefix, 1))

MimePdf ==
    <<"a", "p", "p", "l", "i", "c", "a", "t", "i", "o", "n", "/", "p", "d", "f">>

PrefixImage == <<"i", "m", "a", "g", "e", "/">>

PrefixText == <<"t", "e", "x", "t", "/">>

\* the try block of _extract_text
extract_text_try(file_data, mime_type) ==
    IF ~mime_type.none /\ mime_type.chars = MimePdf
    THEN Returns(Strip(extract_from_pdf(file_data)))
    ELSE LET image == StartsWith(mime_type, PrefixImage)
         IN  IF image.raised THEN Raises
             ELSE IF image.value THEN Returns(Strip(extract_from_image(file_data)))
             ELSE LET text == StartsWith(mime_type, PrefixText)
                  IN  IF text.raised THEN Raises
                      ELSE IF text.value THEN Returns(Strip(Decode(file_data.bytes)))
                      ELSE Returns(Strip(<< >>))

\* _extract_text: the except clause turns every exception into ""
extract_text_uncaught(file_data, mime_type) ==
    extract_text_try(file_data, mime_type)

extract_text(file_data, mime_type) ==
    LET try == extract_text_try(file_data, mime_type)
    IN  IF try.raised THEN Returns(<< >>) ELSE try

(***************************************************************************)
(* _analyze_financial_content                                              *)
(***************************************************************************)
\* what langdetect.detect(text) may do: return a language of the lexicon,
\* return another language, or raise LangDetectException
DetectRaises == "raise"

DetectOutcomes == LexiconLanguages \cup {"it", DetectRaises}

\* the language without the default for a code absent from the lexicon
LanguageAsDetected(outcome) ==
    IF outcome = DetectRaises THEN "en" ELSE outcome

\* lines 173-178
Language(outcome) ==
    IF outcome \in LexiconLanguages THEN outcome ELSE "en"

\* for lang in [language, 'en']
ScannedLanguages(language) == <<language, "en">>

\* the keywords of one language's list that stand in the text, in list order
KeywordsOf(lower, lang) ==
    SelectSeq(financial_keywords[lang], LAMBDA k : Contains(lower, k))

RECURSIVE SumCounts(_, _, _)
SumCounts(lower, ks, i) ==
    IF i > Len(ks) THEN 0 ELSE Count(lower, ks[i]) + SumCounts(lower, ks, i + 1)

\* the inner loop for one language: the keywords appended to
\* keywords_found and the number added to keyword_count
ScanLanguage(lower, lang) ==
    IF lang \notin LexiconLanguages                  \* if lang in self.financial_keywords
    THEN [found |-> << >>, count |-> 0]
    ELSE LET hits == KeywordsOf(lower, lang)
         IN  [found |-> hits, count |-> SumCounts(lower, hits, 1)]

RECURSIVE ScanKeywords(_, _, _)
\* keywords_found and keyword_count after the scan of langs[i..]
ScanKeywords(lower, langs, i) ==
    IF i > Len(langs) THEN [found |-> << >>, count |-> 0]
    ELSE LET first == ScanLanguage(lower, langs[i])
             rest == ScanKeywords(lower, langs, i + 1)
         IN  [found |-> first.found \o rest.found, count |-> first.count + rest.count]

KeywordScoreUncapped(count) == count * 2

\* min(keyword_count * 2, 20)
KeywordScore(count) == Min(count * 2, 20)

AmountScoreOfReported(n) == Min(Min(n, 3) * 5, 20)

\* min(len(amounts_found) * 5, 20), n the number of matches before truncation
AmountScore(n) == Min(n * 5, 20)

InvoiceBonus(lower) == IF SearchAny(lower, InvoiceTokens) THEN 10 ELSE 0

ReceiptBonus(lower) == IF SearchAny(lower, ReceiptTokens) THEN 10 ELSE 0

Threshold == 15

IsFinancialByScoreOnly(score, amounts) == score >= Threshold

\* score >= 15 or len(amounts_found) > 0
IsFinancial(score, amounts) == score >= Threshold \/ Len(amounts) > 0

AllKeywords(keywords_found) == keywords_found

\* keywords_found[:5]
TopKeywords(keywords_found) == Take(keywords_found, 5)

\* amounts_found[:3]
TopAmounts(amounts_found) == Take(amounts_found, 3)

analyze_financial_content(text, outcome) ==
    LET text_lower == LowerText(text)
        language == Language(outcome)
        scan == ScanKeywords(text_lower, ScannedLanguages(language), 1)
        keywords_found == scan.found
        keyword_count == scan.count
        amounts_found == AllAmounts(text)
        score == KeywordScore(keyword_count) + AmountScore(Len(amounts_found))
                     + InvoiceBonus(text_lower) + ReceiptBonus(text_lower)
    IN  [is_financial |-> IsFinancial(score, amounts_found),
         score |-> score,
         language |-> language,
         keywords |-> TopKeywords(keywords_found),
         amounts |-> TopAmounts(amounts_found)]

(***************************************************************************)
(* process_attachment and analyze_email_content                            *)
(*                                                                         *)
(* A run is [value, detect_calls]: what the call returns and how often it  *)
(* called langdetect.detect.                                               *)
(***************************************************************************)
None == [kind |-> "None"]

Mime(chars) == [none |-> FALSE, chars |-> chars]

\* mime_type = None
MimeNone == [none |-> TRUE, chars |-> << >>]

MimeHtml ==
    Mime(<<"t", "e", "x", "t", "/", "h", "t", "m", "l">>)

SnippetLength == 1000

LinkLabelLength == 30

ScoreCap == 100

LinkBoostCapped(financial_links) == Min(Len(financial_links), 3) * 3

\* len(financial_links) * 3
LinkBoost(financial_links) == Len(financial_links) * 3

\* f"link:{link[:30]}..."
LinkLabel(link) ==
    <<"l", "i", "n", "k", ":">> \o Take(link, LinkLabelLength) \o <<".", ".", ".">>

\* [f"link:{link[:30]}..." for link in financial_links[:3]]
LinkLabels(financial_links) ==
    [i \in 1..Min(3, Len(financial_links)) |-> LinkLabel(financial_links[i])]

AttachmentRun(text, filename, mime_type, analysis) ==
    IF analysis.is_financial
    THEN [value |-> [kind |-> "result",
                     filename |-> filename,
                     mime_type |-> mime_type,
                     text |-> Take(text, SnippetLength),
                     language |-> analysis.language,
                     financial_score |-> analysis.score,
                     amounts_found |-> analysis.amounts,
                     keywords_found |-> analysis.keywords],
          detect_calls |-> 1]
    ELSE [value |-> None, detect_calls |-> 1]

process_attachment_unguarded(file_data, filename, mime_type, outcome) ==
    LET text == extract_text(file_data, mime_type).value
    IN  AttachmentRun(text, filename, mime_type, analyze_financial_content(text, outcome))

process_attachment(file_data, filename, mime_type, outcome) ==
    LET extracted == extract_text(file_data, mime_type)
        text == extracted.value
    IN  IF extracted.raised THEN [value |-> None, detect_calls |-> 0]   \* except Exception
        ELSE IF text = << >> THEN [value |-> None, detect_calls |-> 0]  \* if not text
        ELSE AttachmentRun(text, filename, mime_type,
                           analyze_financial_content(text, outcome))

\* 'email_content'
EmailContentName ==
    <<"e", "m", "a", "i", "l", "_", "c", "o", "n", "t", "e", "n", "t">>

\* one run of analyze_email_content, financial_links being the list that
\* _extract_financial_links(email_body) returned
EmailRun(full_text, analysis, financial_links) ==
    LET score == IF financial_links # << >>
                 THEN analysis.score + LinkBoost(financial_links)
                 ELSE analysis.score
        keywords == IF financial_links # << >>
                    THEN analysis.keywords \o LinkLabels(financial_links)
                    ELSE analysis.keywords
    IN  IF analysis.is_financial
        THEN [value |-> [kind |-> "result",
                         filename |-> EmailContentName,
                         mime_type |-> MimeHtml,
                         text |-> Take(full_text, SnippetLength),
                         language |-> analysis.language,
                         financial_score |-> Min(score, ScoreCap),
                         amounts_found |-> analysis.amounts,
                         keywords_found |-> keywords],
              detect_calls |-> 1]
        ELSE [value |-> None, detect_calls |-> 1]

\* the runs of analyze_email_content(email_body, subject) when detect does
\* outcome: one for each order the list of links may come in
analyze_email_content(email_body, subject, outcome) ==
    LET full_text == subject \o <<"\n">> \o email_body
        analysis == analyze_financial_content(full_text, outcome)
    IN  IF Strip(full_text) = << >> THEN {[value |-> None, detect_calls |-> 0]}
        ELSE {EmailRun(full_text, analysis, financial_links) :
                 financial_links \in extract_financial_links(email_body)}

(***************************************************************************)
(* The inputs: texts put together from a few fragments.                    *)
(***************************************************************************)
MaxFragments == 2

MaxPages == 2

\* " \n"
FragBlank ==
    <<" ", "\n">>

\* "Hello "
FragHello ==
    <<"H", "e", "l", "l", "o", " ">>

\* "Receipt invoice bill tax due $1.00 2,50eur "
FragReceipt ==
    <<"R", "e", "c", "e", "i", "p", "t", " ", "i", "n", "v", "o", "i", "c", "e", " ", "b", "i", "l", "l", " ", "t", "a", "x", " ", "d", "u", "e", " ", "$", "1", ".", "0", "0", " ", "2", ",", "5", "0", "e", "u", "r", " ">>

\* "9,99 EUR $ 2.00 Subtotal: 3.00 "
FragAmounts ==
    <<"9", ",", "9", "9", " ", "E", "U", "R", " ", "$", " ", "2", ".", "0", "0", " ", "S", "u", "b", "t", "o", "t", "a", "l", ":", " ", "3", ".", "0", "0", " ">>

\* "Rechnung Bank "
FragGerman ==
    <<"R", "e", "c", "h", "n", "u", "n", "g", " ", "B", "a", "n", "k", " ">>

\* "total reU+00E7u "  (U+00E7 is c with cedilla)
FragFrench ==
    <<"t", "o", "t", "a", "l", " ", "r", "e", "U+00E7", "u", " ">>

\* ITOGO: 15.00 rub, in Cyrillic letters
FragRussian ==
    <<"U+0418", "U+0422", "U+041E", "U+0413", "U+041E", ":", " ", "1", "5", ".", "0", "0", " ", "U+0440", "U+0443", "U+0431", " ">>

\* "http://a/bill "
FragLink ==
    <<"h", "t", "t", "p", ":", "/", "/", "a", "/", "b", "i", "l", "l", " ">>

\* "https://b/Bill http://c/zahlung<HTTP://A/BILL "
FragLinks ==
    <<"h", "t", "t", "p", "s", ":", "/", "/", "b", "/", "B", "i", "l", "l", " ", "h", "t", "t", "p", ":", "/", "/", "c", "/", "z", "a", "h", "l", "u", "n", "g", "<", "H", "T", "T", "P", ":", "/", "/", "A", "/", "B", "I", "L", "L", " ">>

\* "Invoice #123"
SubjectInvoice ==
    <<"I", "n", "v", "o", "i", "c", "e", " ", "#", "1", "2", "3">>

\* "image/png"
MimePng ==
    <<"i", "m", "a", "g", "e", "/", "p", "n", "g">>

\* "text/plain"
MimePlain ==
    <<"t", "e", "x", "t", "/", "p", "l", "a", "i", "n">>

\* "application/zip"
MimeZip ==
    <<"a", "p", "p", "l", "i", "c", "a", "t", "i", "o", "n", "/", "z", "i", "p">>

\* the fragments, in the order they are put together in
Fragments ==
    << FragBlank, FragHello, FragReceipt, FragAmounts, FragGerman, FragFrench,
       FragRussian, FragLink, FragLinks >>

RECURSIVE Flatten(_, _)
\* the fragments numbered parts[i], parts[i + 1], ... one after the other
Flatten(parts, i) ==
    IF i > Len(parts) THEN << >> ELSE Fragments[parts[i]] \o Flatten(parts, i + 1)

\* the texts of at most MaxFragments fragments, the fragments of a text in
\* the order of the list above
Texts ==
    {Flatten(parts, 1) :
        parts \in {x \in UNION {[1..n -> 1..Len(Fragments)] : n \in 0..MaxFragments} :
                      \A i \in 1..(Len(x) - 1) : x[i] <= x[i + 1]}}

Subjects == {<< >>, SubjectInvoice}

Failed == [ok |-> FALSE]

Page(text) == [ok |-> TRUE, text |-> text]

\* what PyPDF2 does on the bytes: it fails to open them, or it gives pages,
\* each of which gives its text or fails
PdfOutcomes ==
    {Failed} \cup
    {[ok |-> TRUE, pages |-> pages] :
        pages \in UNION {[1..n -> {Failed, Page(FragAmounts), Page(FragBlank)}] :
                            n \in 0..MaxPages}}

OcrOutcomes ==
    {Failed, Page(FragRussian), Page(FragBlank)}

FileData(bytes, pdf, ocr) == [bytes |-> bytes, pdf |-> pdf, ocr |-> ocr]

\* plain text files, some with bytes that are no UTF-8
TextFiles ==
    {FileData(t, Failed, Failed) : t \in Texts} \cup
    {FileData(<<BadByte>>, Failed, Failed),
     FileData(<<BadByte, " ">> \o FragAmounts \o <<BadByte>>, Failed, Failed)}

Attachments ==
    {<<f, Mime(MimePlain)>> : f \in TextFiles} \cup
    {<<FileData(FragAmounts, pdf, Failed), Mime(MimePdf)>> : pdf \in PdfOutcomes} \cup
    {<<FileData(FragAmounts, Failed, ocr), Mime(MimePng)>> : ocr \in OcrOutcomes} \cup
    {<<FileData(FragAmounts, Page(FragAmounts), Page(FragAmounts)), m>> :
        m \in {Mime(MimeZip), Mime(<< >>), MimeNone}}

Calls ==
    {[op |-> "process_attachment", file_data |-> a[1], filename |-> "scan.pdf",
      mime_type |-> a[2]] : a \in Attachments} \cup
    {[op |-> "extract_text", file_data |-> a[1], mime_type |-> a[2]] :
        a \in Attachments} \cup
    {[op |-> "analyze_email_content", email_body |-> b, subject |-> s] :
        b \in Texts, s \in Subjects}

(***************************************************************************)
(* The states in which no scan was started and no call was made.           *)
(***************************************************************************)
Pending == [kind |-> "pending"]

\* the classifier before a call
NoCall ==
    /\ call = None
    /\ detected = "none"
    /\ result = Pending
    /\ detectCalls = 0
    /\ repeated = Pending

\* ReceiptScanner() with a new database: init_database creates the two
\* tables, empty
NoScan ==
    /\ pc = "idle"
    /\ messages = << >>
    /\ message_index = 0
    /\ message_data = None
    /\ attachment_index = 0
    /\ documents_found = 0
    /\ processed_messages = 0
    /\ financial_documents = {}
    /\ scan_history = None
    /\ db_written = {}
    /\ gmail_served = 0

\* web_app.py lines 12-17
InitialStatus ==
    [is_scanning |-> FALSE, progress |-> << >>, emails_processed |-> 0,
     documents_found |-> 0]

NoRequest ==
    /\ scanning_status = InitialStatus
    /\ threads = << >>
    /\ responses = << >>

(***************************************************************************)
(* The state machine: one call of the classifier on one input.             *)
(***************************************************************************)
Init ==
    /\ call \in Calls
    /\ detected = "none"
    /\ result = Pending
    /\ detectCalls = 0
    /\ repeated = Pending
    /\ NoScan
    /\ NoRequest

Return(run, outcome) ==
    /\ result' = run.value
    /\ detectCalls' = run.detect_calls
    /\ detected' = IF run.detect_calls = 0 THEN "none" ELSE outcome
    /\ UNCHANGED <<call, repeated, scanVars, webVars>>

ProcessAttachment ==
    /\ result = Pending
    /\ call.op = "process_attachment"
    /\ \E outcome \in DetectOutcomes :
          Return(process_attachment(call.file_data, call.filename, call.mime_type,
                                    outcome), outcome)

AnalyzeEmailContent ==
    /\ result = Pending
    /\ call.op = "analyze_email_content"
    /\ \E outcome \in DetectOutcomes :
          \E run \in analyze_email_content(call.email_body, call.subject, outcome) :
              Return(run, outcome)

ExtractText ==
    /\ result = Pending
    /\ call.op = "extract_text"
    /\ LET extracted == extract_text(call.file_data, call.mime_type)
       IN  result' = IF extracted.raised THEN [kind |-> "raised"]
                     ELSE [kind |-> "text", text |-> extracted.value]
    /\ UNCHANGED <<call, detected, detectCalls, repeated, scanVars, webVars>>

Next == ProcessAttachment \/ AnalyzeEmailContent \/ ExtractText

Spec == Init /\ [][Next]_vars

(***************************************************************************)
(* The same call made a second time, detect doing what it did in the       *)
(* first.                                                                  *)
(***************************************************************************)
\* what detect does in the second call
SameOutcome == IF detected = "none" THEN "en" ELSE detected

ProcessAttachmentAgain ==
    /\ result # Pending
    /\ repeated = Pending
    /\ call.op = "process_attachment"
    /\ repeated' = process_attachment(call.file_data, call.filename, call.mime_type,
                                      SameOutcome).value
    /\ UNCHANGED <<call, detected, result, detectCalls, scanVars, webVars>>

AnalyzeEmailContentAgain ==
    /\ result # Pending
    /\ repeated = Pending
    /\ call.op = "analyze_email_content"
    /\ \E run \in analyze_email_content(call.email_body, call.subject, SameOutcome) :
          repeated' = run.value
    /\ UNCHANGED <<call, detected, result, detectCalls, scanVars, webVars>>

\* the calls of the two classifying functions
ClassifierCalls == {c \in Calls : c.op # "extract_text"}

RepeatInit ==
    /\ call \in ClassifierCalls
    /\ detected = "none"
    /\ result = Pending
    /\ detectCalls = 0
    /\ repeated = Pending
    /\ NoScan
    /\ NoRequest

RepeatNext ==
    \/ ProcessAttachment
    \/ AnalyzeEmailContent
    \/ ProcessAttachmentAgain
    \/ AnalyzeEmailContentAgain

RepeatSpec == RepeatInit /\ [][RepeatNext]_vars

(***************************************************************************)
(* What the properties below speak of.                                     *)
(***************************************************************************)
Done == result # Pending

Returned == result.kind = "result"

AttachmentCall == call.op = "process_attachment"

EmailCall == call.op = "analyze_email_content"

ExtractCall == call.op = "extract_text"

\* the text the classifier analyses in the call
AnalysedText ==
    IF EmailCall THEN call.subject \o <<"\n">> \o call.email_body
    ELSE extract_text(call.file_data, call.mime_type).value

Blank(s) == \A i \in 1..Len(s) : s[i] \in Whitespace

\* the number of distinct financial links of the email body
DistinctLinks == Cardinality(LinkSet(call.email_body))

\* the four parts of the score and their sum before the link boost
KeywordPoints(count) == IF count * 2 < 20 THEN count * 2 ELSE 20

AmountPoints(n) == IF n * 5 < 20 THEN n * 5 ELSE 20

BonusPoints(s) ==
    (IF SearchAny(LowerText(s), InvoiceTokens) THEN 10 ELSE 0)
        + (IF SearchAny(LowerText(s), ReceiptTokens) THEN 10 ELSE 0)

ScannedCount(s) ==
    ScanKeywords(LowerText(s), ScannedLanguages(Language(detected)), 1).count

BaseScore(s) ==
    KeywordPoints(ScannedCount(s)) + AmountPoints(Len(AllAmounts(s))) + BonusPoints(s)

\* the occurrences of the English keywords in s, each keyword scanned once
EnglishCount(s) ==
    SumCounts(LowerText(s), KeywordsOf(LowerText(s), "en"), 1)

LinkLabelCount ==
    Cardinality({i \in 1..Len(result.keywords_found) :
                    MatchAt(result.keywords_found[i], <<"l", "i", "n", "k", ":">>, 1)})

(***************************************************************************)
(* The classifier's properties.                                            *)
(***************************************************************************)
\* C1: in email-body mode a result is returned exactly when the score with
\* the link boost added is at least 15 or an amount pattern matched.
C1_DecisionOnBoostedScore ==
    (EmailCall /\ Done /\ ~Blank(AnalysedText)) =>
        (Returned <=> (\/ BaseScore(AnalysedText) + 3 * DistinctLinks >= 15
                       \/ Len(AllAmounts(AnalysedText)) > 0))

\* C2: in both modes, when an amount pattern matches the analysed text a
\* result is returned, whatever the score.
C2_AmountSufficient ==
    ((AttachmentCall \/ EmailCall) /\ Done /\ Len(AllAmounts(AnalysedText)) > 0)
        => Returned

\* an attachment whose text has an amount and a score below 15 was classified
C2_Witness ==
    /\ AttachmentCall /\ Returned
    /\ Len(AllAmounts(AnalysedText)) > 0
    /\ result.financial_score < 15

\* C3: empty or whitespace-only text gives no result, and the language
\* detection is not run on it.
C3_BlankGivesNone ==
    ((AttachmentCall \/ EmailCall) /\ Done /\ Blank(AnalysedText))
        => (result = None /\ detectCalls = 0 /\ detected = "none")

\* an attachment of whitespace-only bytes and a whitespace-only email were
\* each answered with no result
C3_Witness ==
    /\ Done /\ result = None
    /\ \/ AttachmentCall /\ call.file_data.bytes # << >> /\ Blank(call.file_data.bytes)
          /\ call.mime_type = Mime(MimePlain)
       \/ EmailCall /\ call.email_body # << >> /\ Blank(AnalysedText)

C5_BoostCappedAtNine ==
    (EmailCall /\ Returned) =>
        /\ result.financial_score =
               Min(BaseScore(AnalysedText) + 3 * Min(DistinctLinks, 3), 100)
        /\ LinkLabelCount <= 3

\* C5 amended: the link boost is 3 for each distinct financial link, with no
\* cap of its own (the reported score is min(total, 100)), and the labels
\* appended are min(distinct links, 3) in number.
C5_BoostPerLink ==
    (EmailCall /\ Returned) =>
        /\ result.financial_score = Min(BaseScore(AnalysedText) + 3 * DistinctLinks, 100)
        /\ LinkLabelCount = Min(DistinctLinks, 3)

\* an email result with more than 3 distinct links, hence a boost above 9
C5_Witness ==
    /\ EmailCall /\ Returned
    /\ DistinctLinks > 3
    /\ result.financial_score = BaseScore(AnalysedText) + 3 * DistinctLinks
    /\ LinkLabelCount = 3

\* C6: when the detected language is 'en' the English keywords are counted
\* once: the keyword score is min(2 * their occurrences, 20).
C6_EnglishCountedOnce ==
    (AttachmentCall /\ Returned /\ detected = "en") =>
        result.financial_score =
            KeywordPoints(EnglishCount(AnalysedText))
                + AmountPoints(Len(AllAmounts(AnalysedText))) + BonusPoints(AnalysedText)

\* C7: keywords_found holds no keyword twice.
C7_NoRepeatedKeyword ==
    Returned =>
        \A i, j \in 1..Len(result.keywords_found) :
            result.keywords_found[i] = result.keywords_found[j] => i = j

\* C8: keywords_found has at most 5 entries in an attachment result and at
\* most 8 in an email-body result.
C8_KeywordsLength ==
    Returned =>
        /\ AttachmentCall => Len(result.keywords_found) <= 5
        /\ EmailCall => Len(result.keywords_found) <= 8

\* an email result with 5 lexicon keywords and 3 link labels
C8_Witness ==
    /\ EmailCall /\ Returned
    /\ Len(result.keywords_found) = 8
    /\ LinkLabelCount = 3

\* C9: amounts_found is the first 3 of all amount matches (pattern order
\* outer, match order inner), while the amount score counts all matches.
C9_AmountsPrefix ==
    Returned =>
        LET all == AllAmounts(AnalysedText)
        IN  /\ Len(result.amounts_found) <= 3
            /\ Len(result.amounts_found) = Min(Len(all), 3)
            /\ \A i \in 1..Len(result.amounts_found) : result.amounts_found[i] = all[i]
            /\ AttachmentCall =>
                   result.financial_score =
                       KeywordPoints(ScannedCount(AnalysedText))
                           + AmountPoints(Len(all)) + BonusPoints(AnalysedText)

\* a result whose text has 4 amount matches: 3 are reported, 20 points scored
C9_Witness ==
    /\ AttachmentCall /\ Returned
    /\ Len(AllAmounts(AnalysedText)) = 4
    /\ Len(result.amounts_found) = 3
    /\ result.financial_score >= 20

\* the media types _extract_text has no branch for, and None
Unsupported(mime_type) ==
    \/ mime_type.none
    \/ /\ mime_type.chars # MimePdf
       /\ ~MatchAt(mime_type.chars, PrefixImage, 1)
       /\ ~MatchAt(mime_type.chars, PrefixText, 1)

\* C10: _extract_text never raises; it returns "" for an unsupported or
\* missing media type, and "" or the text before the failure when the PDF
\* parsing or the OCR fails.
C10_ExtractNeverRaises ==
    (ExtractCall /\ Done) =>
        /\ result.kind = "text"
        /\ Unsupported(call.mime_type) => result.text = << >>
        /\ (call.mime_type = Mime(MimePdf) /\ ~call.file_data.pdf.ok) => result.text = << >>
        /\ (call.mime_type = Mime(MimePng) /\ ~call.file_data.ocr.ok) => result.text = << >>
        /\ (call.mime_type = Mime(MimePdf) /\ call.file_data.pdf.ok) =>
               \E n \in 0..Len(call.file_data.pdf.pages) :
                   /\ \A i \in 1..n : call.file_data.pdf.pages[i].ok
                   /\ n < Len(call.file_data.pdf.pages) => ~call.file_data.pdf.pages[n + 1].ok
                   /\ result.text = Strip(PagesText(SubSeq(call.file_data.pdf.pages, 1, n), 1))

\* _extract_text was called with the media type None and returned ""
C10_Witness ==
    ExtractCall /\ Done /\ call.mime_type.none /\ result = [kind |-> "text", text |-> << >>]

\* C11: the language of every returned result is a key of the lexicon; when
\* the detection raises or returns a code absent from the lexicon, it is "en".
C11_LanguageInLexicon ==
    Returned =>
        /\ result.language \in LexiconLanguages
        /\ detected \notin LexiconLanguages => result.language = "en"

\* a result for a text the detection took for Italian
C11_Witness ==
    Returned /\ detected = "it" /\ result.language = "en"

\* C14: with a deterministic language detector, the same call made twice
\* returns the same result twice, the 'link:' labels of keywords_found and
\* their order included.
C14_SameResultTwice ==
    repeated # Pending => repeated = result

(***************************************************************************)
(* ReceiptScanner.scan_gmail (src/src/main.py) and the database            *)
(* (src/src/database.py).                                                  *)
(*                                                                         *)
(* A row of financial_documents keeps the columns message_id, filename,    *)
(* document_type and financial_score.  Of scan_history the model keeps the *)
(* row the current scan has inserted (None before it does), with its       *)
(* columns emails_scanned, documents_found and status; the rows of earlier *)
(* scans are left out.                                                     *)
(***************************************************************************)
\* supported_types, lines 108-112
supported_types ==
    { <<"a", "p", "p", "l", "i", "c", "a", "t", "i", "o", "n", "/", "p", "d", "f">>,
      <<"i", "m", "a", "g", "e", "/", "j", "p", "e", "g">>,
      <<"i", "m", "a", "g", "e", "/", "j", "p", "g">>,
      <<"i", "m", "a", "g", "e", "/", "p", "n", "g">>,
      <<"i", "m", "a", "g", "e", "/", "t", "i", "f", "f">>,
      <<"t", "e", "x", "t", "/", "p", "l", "a", "i", "n">> }

\* financial_extensions, line 119
financial_extensions ==
    { <<".", "p", "d", "f">>,
      <<".", "j", "p", "g">>,
      <<".", "j", "p", "e", "g">>,
      <<".", "p", "n", "g">>,
      <<".", "t", "i", "f", "f">>,
      <<".", "t", "x", "t">> }

\* 10 * 1024 * 1024
SizeLimit == 10485760

\* s.endswith(suffix)
EndsWith(s, suffix) ==
    /\ Len(suffix) <= Len(s)
    /\ SubSeq(s, Len(s) - Len(suffix) + 1, Len(s)) = suffix

\* the check of the extension left out
should_process_any_name(attachment) ==
    IF attachment.size > SizeLimit THEN FALSE
    ELSE /\ ~attachment.mime_type.none
         /\ attachment.mime_type.chars \in supported_types

\* _should_process_attachment
should_process_attachment(attachment) ==
    LET filename == LowerText(attachment.filename)
    IN  IF attachment.size > SizeLimit THEN FALSE
        ELSE IF ~\E ext \in financial_extensions : EndsWith(filename, ext) THEN FALSE
        ELSE /\ ~attachment.mime_type.none
             /\ attachment.mime_type.chars \in supported_types

\* what download_attachment returns for the attachment: its bytes, or None
\* when the request or the decoding fails
download_attachment(attachment, ok) ==
    IF ok THEN attachment.file_data ELSE None

\* _process_attachment when download_attachment returns file_data and detect
\* does outcome
process_message_attachment(message, attachment, file_data, outcome) ==
    IF file_data = None THEN None                      \* if not file_data
    ELSE IF file_data.bytes = << >> THEN None
    ELSE process_attachment(file_data, attachment.filename, attachment.mime_type,
                            outcome).value

\* the row save_document writes
Row(message, doc_analysis, document_type) ==
    [message_id |-> message.id,
     filename |-> doc_analysis.filename,
     document_type |-> document_type,
     financial_score |-> doc_analysis.financial_score]

Key(row) == <<row.message_id, row.filename>>

\* INSERT without OR REPLACE, on a table without the UNIQUE constraint
Insert(table, row) == table \cup {row}

\* INSERT OR REPLACE under UNIQUE(message_id, filename): the rows in
\* conflict with the new one are deleted, then the new one is inserted
InsertOrReplace(table, row) ==
    {r \in table : Key(r) # Key(row)} \cup {row}

\* the table after save_document returned True
save_document(table, message, doc_analysis, document_type) ==
    InsertOrReplace(table, Row(message, doc_analysis, document_type))

\* every email-body result is saved
SaveEveryEmail(message, email_analysis) == TRUE

\* line 84
ShouldSaveEmail(message, email_analysis) ==
    message.attachments = << >> \/ email_analysis.financial_score > 25

\* the scan goes to the end of the list
StopAfterFailedRetrieval(index, count) == count + 1

\* lines 57-58: if not message_data: continue
AfterFailedRetrieval(index, count) == index + 1

(***************************************************************************)
(* The mailbox the scans read.                                             *)
(***************************************************************************)
MaxMessages == 4

\* "a.pdf"
NameInvoicePdf ==
    <<"a", ".", "p", "d", "f">>

\* "B.TXT"
NameNotesTxt ==
    <<"B", ".", "T", "X", "T">>

\* "big.pdf"
NameBigPdf ==
    <<"b", "i", "g", ".", "p", "d", "f">>

\* "c.pdf"
NameBrokenPdf ==
    <<"c", ".", "p", "d", "f">>

\* "d.png"
NamePicture ==
    <<"d", ".", "p", "n", "g">>

\* "e.txt"
NameEmptyTxt ==
    <<"e", ".", "t", "x", "t">>

\* "$ 2.00"
BodyAmount ==
    <<"$", " ", "2", ".", "0", "0">>

\* "%PDF"
PdfBytes ==
    <<"%", "P", "D", "F">>

\* a PDF file with one page of the text
PdfOf(text) == FileData(PdfBytes, [ok |-> TRUE, pages |-> <<Page(text)>>], Failed)

\* a file PyPDF2 cannot open
BrokenPdf == FileData(PdfBytes, Failed, Failed)

TextOf(text) == FileData(text, Failed, Failed)

\* an entry of message_data['attachments'], with the bytes Gmail holds for it
Attachment(filename, mime_type, size, file_data) ==
    [filename |-> filename, mime_type |-> mime_type, size |-> size,
     file_data |-> file_data]

\* the messages of the mailbox, one after the other: a message with an
\* empty body and attachments that are too large, broken, of another type
\* or empty; an invoice with a financial body and two attachments of the
\* same name; a message with an amount in its body, an attachment named
\* email_content and a text file; a message with an amount in its body and
\* no attachment
MessageKinds ==
    << [subject |-> << >>, body_text |-> << >>,
        attachments |->
            << Attachment(NameBigPdf, Mime(MimePdf), SizeLimit + 1, PdfOf(FragAmounts)),
               Attachment(NameBrokenPdf, Mime(MimePdf), 100, BrokenPdf),
               Attachment(NamePicture, Mime(MimeZip), 100, TextOf(FragAmounts)),
               Attachment(NameEmptyTxt, Mime(MimePlain), 0, TextOf(<< >>)) >>],
       [subject |-> SubjectInvoice, body_text |-> FragReceipt,
        attachments |->
            << Attachment(NameInvoicePdf, Mime(MimePdf), 1000, PdfOf(FragAmounts)),
               Attachment(NameInvoicePdf, Mime(MimePdf), 2000, PdfOf(FragReceipt)) >>],
       [subject |-> << >>, body_text |-> BodyAmount,
        attachments |->
            << Attachment(EmailContentName, Mime(MimePlain), 100, TextOf(FragReceipt)),
               Attachment(NameNotesTxt, Mime(MimePlain), 100, TextOf(FragAmounts)) >>],
       [subject |-> << >>, body_text |-> BodyAmount, attachments |-> << >>] >>

\* what get_message_details(id) returns when it succeeds
MessageOf(id) ==
    LET kind == MessageKinds[((id - 1) % Len(MessageKinds)) + 1]
    IN  [id |-> id, subject |-> kind.subject, body_text |-> kind.body_text,
         attachments |-> kind.attachments]

\* what detect does on the texts of the mailbox: it takes them for English,
\* or fails on them
ScanDetectOutcomes == {"en", DetectRaises}

Mailbox == [id \in 1..MaxMessages |-> MessageOf(id)]

\* _should_process_attachment on each attachment of the mailbox
ShouldProcess ==
    [id \in 1..MaxMessages |->
        [k \in 1..Len(Mailbox[id].attachments) |->
            should_process_attachment(Mailbox[id].attachments[k])]]

\* _process_attachment on each attachment of the mailbox, for each outcome
\* of the download and of detect
AttachmentAnalyses ==
    [id \in 1..MaxMessages |->
        [k \in 1..Len(Mailbox[id].attachments) |->
            [ok \in BOOLEAN |->
                [outcome \in ScanDetectOutcomes |->
                    LET attachment == Mailbox[id].attachments[k]
                    IN  process_message_attachment(
                            Mailbox[id], attachment,
                            download_attachment(attachment, ok), outcome)]]]]

\* what analyze_email_content may return on each message of the mailbox,
\* for each outcome of detect
EmailAnalyses ==
    [id \in 1..MaxMessages |->
        [outcome \in ScanDetectOutcomes |->
            {run.value : run \in analyze_email_content(Mailbox[id].body_text,
                                                      Mailbox[id].subject, outcome)}]]

(***************************************************************************)
(* The scan, one step for each call of Gmail, of the classifier and of the *)
(* database.  The classifier's results are read from the tables above.     *)
(***************************************************************************)
\* lines 46-51: the search gives the ids of the first messages of the
\* mailbox (none when the request fails), and the counts start at 0
SearchEmails ==
    /\ pc \in {"idle", "returned", "raised"}
    /\ \E n \in 0..MaxMessages :
          /\ messages' = [k \in 1..n |-> k]
          /\ pc' = IF n = 0 THEN "history" ELSE "message"
    /\ message_index' = 1
    /\ message_data' = None
    /\ attachment_index' = 0
    /\ documents_found' = 0
    /\ processed_messages' = 0
    /\ db_written' = {}
    /\ gmail_served' = 0
    /\ scan_history' = None
    /\ UNCHANGED <<financial_documents, classifierVars, webVars>>

\* the loop goes to the next message, or ends
NextMessage(index) ==
    /\ message_index' = index
    /\ pc' = IF index > Len(messages) THEN "history" ELSE "message"

\* lines 56-61
GetMessageDetails ==
    /\ pc = "message"
    /\ \E ok \in BOOLEAN :
          IF ok
          THEN /\ message_data' = Mailbox[messages[message_index]]
               /\ processed_messages' = processed_messages + 1
               /\ gmail_served' = gmail_served + 1
               /\ attachment_index' = 1
               /\ pc' = IF message_data'.attachments = << >> THEN "email" ELSE "attachment"
               /\ UNCHANGED message_index
          ELSE /\ message_data' = None
               /\ NextMessage(AfterFailedRetrieval(message_index, Len(messages)))
               /\ UNCHANGED <<processed_messages, gmail_served, attachment_index>>
    /\ UNCHANGED <<messages, documents_found, financial_documents, scan_history,
                   db_written, classifierVars, webVars>>

\* save_document(message_data, doc_analysis, document_type) and the count
\* of line 72 or 86; ok is whether the INSERT succeeded
Save(doc_analysis, document_type, ok) ==
    LET row == Row(message_data, doc_analysis, document_type)
    IN  /\ financial_documents' =
               IF ok THEN save_document(financial_documents, message_data, doc_analysis,
                                        document_type)
               ELSE financial_documents
        /\ db_written' = IF ok THEN db_written \cup {Key(row)} ELSE db_written
        /\ documents_found' = documents_found + 1

NoSave == UNCHANGED <<financial_documents, db_written, documents_found>>

\* lines 64-73, for one attachment
HandleAttachment ==
    /\ pc = "attachment"
    /\ IF ShouldProcess[message_data.id][attachment_index]
       THEN \E downloaded \in BOOLEAN, outcome \in ScanDetectOutcomes :
               LET doc_analysis ==
                       AttachmentAnalyses[message_data.id][attachment_index][downloaded][outcome]
               IN  IF doc_analysis # None
                   THEN \E ok \in BOOLEAN : Save(doc_analysis, "attachment", ok)
                   ELSE NoSave
       ELSE NoSave
    /\ attachment_index' = attachment_index + 1
    /\ pc' = IF attachment_index = Len(message_data.attachments) THEN "email"
             ELSE "attachment"
    /\ UNCHANGED <<messages, message_index, message_data, processed_messages,
                   scan_history, gmail_served, classifierVars, webVars>>

\* lines 76-87
AnalyzeEmailBody ==
    /\ pc = "email"
    /\ IF message_data.body_text # << >>
       THEN \E outcome \in ScanDetectOutcomes :
               \E email_analysis \in EmailAnalyses[message_data.id][outcome] :
                   IF email_analysis # None
                   THEN IF ShouldSaveEmail(message_data, email_analysis)
                        THEN \E ok \in BOOLEAN :
                                Save(email_analysis, "email_content", ok)
                        ELSE NoSave
                   ELSE NoSave
       ELSE NoSave
    /\ NextMessage(message_index + 1)
    /\ UNCHANGED <<messages, message_data, attachment_index, processed_messages,
                   scan_history, gmail_served, classifierVars, webVars>>

\* lines 94-100: save_scan_history, which raises when the INSERT fails, and
\* the return of documents_found
SaveScanHistory ==
    /\ pc = "history"
    /\ \E ok \in BOOLEAN :
          IF ok
          THEN /\ scan_history' = [emails_scanned |-> processed_messages,
                                    documents_found |-> documents_found,
                                    status |-> "completed"]
               /\ pc' = "returned"
          ELSE /\ pc' = "raised"
               /\ UNCHANGED scan_history
    /\ UNCHANGED <<messages, message_index, message_data, attachment_index,
                   documents_found, processed_messages, financial_documents,
                   db_written, gmail_served, classifierVars, webVars>>

ScanInit == NoCall /\ NoScan /\ NoRequest

ScanNext ==
    \/ SearchEmails
    \/ GetMessageDetails
    \/ HandleAttachment
    \/ AnalyzeEmailBody
    \/ SaveScanHistory

ScanSpec == ScanInit /\ [][ScanNext]_vars

\* the first scan on a new database
FirstSearch == pc = "idle" /\ SearchEmails

FirstScanNext ==
    \/ FirstSearch
    \/ GetMessageDetails
    \/ HandleAttachment
    \/ AnalyzeEmailBody
    \/ SaveScanHistory

\* one scan in which every call of Gmail, of the classifier and of the
\* database returns
ScanLive == ScanInit /\ [][FirstScanNext]_vars /\ WF_vars(FirstScanNext)

(***************************************************************************)
(* The scan's properties.                                                  *)
(***************************************************************************)
\* the attachments of the message that _should_process_attachment lets
\* through to _process_attachment
AnalyzedAttachments(message) ==
    {k \in 1..Len(message.attachments) :
        should_process_attachment(message.attachments[k])}

InLoop == {"message", "attachment", "email"}

\* C12: an email-body result is in the table only if no attachment of its
\* message was handed to the classifier or its financial_score exceeds 25.
C12_EmailSavePolicy ==
    \A r \in financial_documents :
        r.document_type = "email_content" =>
            \/ AnalyzedAttachments(Mailbox[r.message_id]) = {}
            \/ r.financial_score > 25

\* the scan is past message 3, whose body is financial with a score of at
\* most 25: the text attachment was saved and the body was not, while the
\* body of message 2, with attachments and a score above 25, was saved
C12_Witness ==
    /\ message_index > 3
    /\ \E email_analysis \in EmailAnalyses[3]["en"] :
          email_analysis # None /\ email_analysis.financial_score <= 25
    /\ <<3, NameNotesTxt>> \in db_written
    /\ ~\E r \in financial_documents : Key(r) = <<3, EmailContentName>>
    /\ \E r \in financial_documents :
          Key(r) = <<2, EmailContentName>> /\ r.financial_score > 25

\* C13 (the part on the loop): whatever fails for a message or an attachment,
\* the loop goes from each message to the next one and leaves only after the
\* last one; nothing is raised out of the loop, and the scan then ends.
C13_LoopContinues ==
    /\ [][/\ pc \in InLoop =>
               \/ pc' \in InLoop /\ message_index' = message_index
               \/ /\ message_index < Len(messages)
                  /\ pc' = "message"
                  /\ message_index' = message_index + 1
               \/ message_index = Len(messages) /\ pc' = "history"
          /\ pc' = "raised" => pc = "history"]_vars
    /\ (pc \in InLoop \cup {"history"}) ~> (pc \in {"returned", "raised"})

C13_Witness ==
    /\ pc = "returned"
    /\ Len(messages) = 4
    /\ processed_messages < 4
    /\ <<4, EmailContentName>> \in db_written

\* C16: the table holds at most one row for each (message_id, filename); a
\* save that changes the table leaves the saved row in the place of the row
\* of its key and the other rows as they were; and the rows of attachments
\* have a file name with an accepted extension, so never 'email_content',
\* which is the file name of the email-body rows.
C16_OneRowPerKey ==
    /\ [](\A r1, r2 \in financial_documents : Key(r1) = Key(r2) => r1 = r2)
    /\ [](\A r \in financial_documents :
             /\ r.document_type = "attachment" =>
                    /\ \E ext \in financial_extensions : EndsWith(LowerText(r.filename), ext)
                    /\ r.filename # EmailContentName
             /\ r.document_type = "email_content" => r.filename = EmailContentName)
    /\ [][financial_documents' # financial_documents =>
             \E row \in financial_documents' :
                 /\ row.message_id = message_data.id
                 /\ financial_documents' =
                        {r \in financial_documents : Key(r) # Key(row)} \cup {row}]_vars

\* both attachments named a.pdf of message 2 were counted, the table holds
\* one row for them, with the score of the second one, next to the row of
\* the message's body
C16_Witness ==
    /\ pc = "message" /\ message_index = 3
    /\ documents_found = 3
    /\ db_written = {<<2, NameInvoicePdf>>, <<2, EmailContentName>>}
    /\ \E r \in financial_documents :
          /\ Key(r) = <<2, NameInvoicePdf>>
          /\ r.financial_score =
                 process_attachment(PdfOf(FragReceipt), NameInvoicePdf, Mime(MimePdf),
                                    "en").value.financial_score

\* C17: the count the scan returns and records is the number of rows it
\* wrote (the keys saved successfully), and emails_scanned is the number of
\* messages whose details Gmail gave.
C17_CountsMatch ==
    pc = "returned" =>
        /\ documents_found = Cardinality(db_written)
        /\ scan_history.documents_found = documents_found
        /\ processed_messages = gmail_served
        /\ scan_history.emails_scanned = processed_messages

(***************************************************************************)
(* The web application: POST /start_scan starts run_scan in a thread of    *)
(* its own; scanning_status is the dictionary the handlers and the threads *)
(* share.  A thread is at "started" from thread.start() until run_scan     *)
(* runs its first statement.  A text of the status is the sequence of the  *)
(* parts it is formatted from.                                             *)
(***************************************************************************)
MaxRequests == 3

\* the form of a request: no field, or the field 'days' (the number the
\* page's form sends, or a text that is no number)
EmptyForm == << >>

Forms == {EmptyForm, [days |-> <<"3", "0">>], [days |-> <<"x">>]}

DigitValue(c) == CHOOSE n \in 0..9 : ToString(n) = c

RECURSIVE DecimalValue(_)
DecimalValue(text) ==
    IF text = << >> THEN 0
    ELSE 10 * DecimalValue(SubSeq(text, 1, Len(text) - 1)) + DigitValue(text[Len(text)])

\* int(request.form.get('days', 30)): ValueError for a text that is no number
form_days(form) ==
    IF "days" \notin DOMAIN form THEN [raised |-> FALSE, value |-> 30]
    ELSE IF form.days # << >> /\ \A i \in DOMAIN form.days : form.days[i] \in Digits
         THEN [raised |-> FALSE, value |-> DecimalValue(form.days)]
         ELSE [raised |-> TRUE, value |-> 0]

\* what scan_gmail gives run_scan: a count, or an exception
ScanCounts == {0, 2}

ScanErrors == {"database is locked"}

Respond(status) == responses' = Append(responses, status)

\* start_scan: the handler of one request
StartScan(form) ==
    /\ Len(responses) < MaxRequests
    /\ IF scanning_status.is_scanning
       THEN Respond(400) /\ UNCHANGED threads
       ELSE LET days == form_days(form) IN
            IF days.raised
            THEN Respond(500) /\ UNCHANGED threads
            ELSE /\ threads' = Append(threads, [pc |-> "started", days |-> days.value])
                 /\ Respond(302)
    /\ UNCHANGED <<scanning_status, classifierVars, scanVars>>

At(t, place) == t \in DOMAIN threads /\ threads[t].pc = place

Goto(t, place) == threads' = [threads EXCEPT ![t].pc = place]

\* run_scan, its first statements
RunScanBegin(t) ==
    /\ At(t, "started")
    /\ scanning_status' =
           [is_scanning |-> TRUE, progress |-> <<"Initialization...">>,
            emails_processed |-> 0, documents_found |-> 0]
    /\ Goto(t, "initialize")
    /\ UNCHANGED <<responses, classifierVars, scanVars>>

\* run_scan, scanner.initialize() and what follows it
RunScanInitialize(t, ok) ==
    /\ At(t, "initialize")
    /\ IF ok
       THEN /\ scanning_status' =
                   [scanning_status EXCEPT
                       !.progress = <<"Searching the emails of the last ",
                                      ToString(threads[t].days), " days...">>]
            /\ Goto(t, "scan_gmail")
       ELSE /\ scanning_status' =
                   [scanning_status EXCEPT
                       !.progress = <<"Gmail API initialization error">>,
                       !.is_scanning = FALSE]
            /\ Goto(t, "finally")
    /\ UNCHANGED <<responses, classifierVars, scanVars>>

\* run_scan, scanner.scan_gmail(days) returns
RunScanReturns(t, documents_found_) ==
    /\ At(t, "scan_gmail")
    /\ scanning_status' =
           [scanning_status EXCEPT
               !.documents_found = documents_found_,
               !.progress = <<"Scan complete! Documents found: ",
                              ToString(documents_found_)>>]
    /\ Goto(t, "finally")
    /\ UNCHANGED <<responses, classifierVars, scanVars>>

\* run_scan, scanner.scan_gmail(days) raises
RunScanRaises(t, e) ==
    /\ At(t, "scan_gmail")
    /\ scanning_status' = [scanning_status EXCEPT !.progress = <<"Error: ", e>>]
    /\ Goto(t, "finally")
    /\ UNCHANGED <<responses, classifierVars, scanVars>>

keep_status(status) == status

\* the finally clause of run_scan
finally_clause(status) == [status EXCEPT !.is_scanning = FALSE]

RunScanFinally(t) ==
    /\ At(t, "finally")
    /\ scanning_status' = finally_clause(scanning_status)
    /\ Goto(t, "ended")
    /\ UNCHANGED <<responses, classifierVars, scanVars>>

RunScan(t) ==
    \/ RunScanBegin(t)
    \/ \E ok \in BOOLEAN : RunScanInitialize(t, ok)
    \/ \E n \in ScanCounts : RunScanReturns(t, n)
    \/ \E e \in ScanErrors : RunScanRaises(t, e)
    \/ RunScanFinally(t)

WebInit == NoCall /\ NoScan /\ NoRequest

WebNext ==
    \/ \E form \in Forms : StartScan(form)
    \/ \E t \in 1..MaxRequests : RunScan(t)

WebSpec == WebInit /\ [][WebNext]_vars

\* a started thread is scheduled, and initialize and scan_gmail come back
WebLive == WebSpec /\ \A t \in 1..MaxRequests : WF_vars(RunScan(t))

Running(t) == t \in DOMAIN threads /\ threads[t].pc # "ended"

\* C15: at most one background scan at any time: of the run_scan threads
\* that were started, at most one has not ended.
C15_OneScanAtATime ==
    Cardinality({t \in DOMAIN threads : Running(t)}) <= 1

\* C18: every run_scan that was started comes to its end; the step that ends
\* it leaves is_scanning False; and is_scanning is True only while some
\* run_scan is between its first statement and its end, so that it is False
\* once every run_scan has ended.
C18_FlagCleared ==
    /\ \A t \in 1..MaxRequests :
           (t \in DOMAIN threads) ~> At(t, "ended")
    /\ [][\A t \in DOMAIN threads :
              Running(t) /\ threads'[t].pc = "ended" => ~scanning_status'.is_scanning]_vars
    /\ [](scanning_status.is_scanning =>
              \E t \in DOMAIN threads : threads[t].pc \in {"initialize", "scan_gmail", "finally"})

\* the first run_scan ended after scan_gmail raised, is_scanning is False,
\* and the next request was accepted: its thread is started
C18_Witness ==
    /\ At(1, "ended")
    /\ At(2, "started")
    /\ scanning_status.progress = <<"Error: ", "database is locked">>
    /\ ~scanning_status.is_scanning
    /\ responses = <<302, 302>>

====
